---- MODULE Spec2Model ----
(***************************************************************************)
(* A model of the discovery scanner (findAllRegistrations, in              *)
(* packages/identity/src/multichain.ts) and of the capability probe        *)
(* (probeAgent, in packages/data/src/probe.ts).  Every await of the code   *)
(* is a step boundary: an action is what runs between two awaits.          *)
(***************************************************************************)
EXTENDS Integers, Sequences, FiniteSets, TLC

(***************************************************************************)
(* Bounds of the model.                                                    *)
(***************************************************************************)
MaxTokens == 2
MaxServices == 2

(***************************************************************************)
(* Optional values: None is null / undefined, Some(x) a present value.     *)
(***************************************************************************)
None == << >>
Some(x) == << x >>
IsSome(o) == o # << >>
Get(o) == o[1]

\* ------------------------------------------------------------------------
\* MultichainScanner: findAllRegistrations
\* ------------------------------------------------------------------------

VARIABLES
    chainIds,   \* options.chainIds as given (order kept, repeats allowed)
    fetchReg,   \* options.fetchRegistration ?? false
    registryOption, \* options.registry (None: no override given)
    chain,      \* the on-chain state of every supported chain, fixed for a scan
    pc,         \* pc[i]: where the i-th per-chain task stands
    idx,        \* idx[i]: position of the i-th task in its logs (0: not in the loop)
    currentOwner, \* currentOwner[i]: the answer of the last ownerOf of the i-th task
    results,    \* the shared collector the tasks push to; sorted in place and
                \* handed to the caller when the scan returns
    scanpc,     \* "called", "scanning" once the tasks are launched, then "returned"
    calls,      \* history: calls[i] is the set of calls the i-th task has issued
    late        \* history: late[i] holds once balanceOf answered the i-th task
                \* after its timer had fired

scanVars == << chainIds, fetchReg, registryOption, chain, pc, idx, currentOwner,
               results, scanpc, calls, late >>

\* The chains of constants.js the model keeps, and a chain id it does not know.
SUPPORTED_CHAINS == {1, 8453}
UnknownChainId == 999
IDENTITY_REGISTRY_ADDRESS == "0x8004A169FB4a3325136EB29fA0ceB6D2e539a432"
RegistryOverride == "0x7777A169FB4a3325136EB29fA0ceB6D2e5391111"

\* Mutant: the override of the registry address ignored.
RegistryDefaultOnly == IDENTITY_REGISTRY_ADDRESS

\* Line 47: the registry address of the scan.
registry ==
    IF registryOption = None THEN IDENTITY_REGISTRY_ADDRESS ELSE Get(registryOption)

\* A number in a template literal: its decimal digits.
Digit(d) ==
    CASE d = 0 -> "0" [] d = 1 -> "1" [] d = 2 -> "2" [] d = 3 -> "3" [] d = 4 -> "4"
      [] d = 5 -> "5" [] d = 6 -> "6" [] d = 7 -> "7" [] d = 8 -> "8" [] d = 9 -> "9"

RECURSIVE DecString(_)
DecString(n) == IF n < 10 THEN Digit(n) ELSE DecString(n \div 10) \o Digit(n % 10)

\* Line 134: `eip155:${chainId}:${registry}#${agentId}`.
FormatGlobalId(chainId, reg, agentId) ==
    "eip155:" \o DecString(chainId) \o ":" \o reg \o "#" \o DecString(agentId)

\* The scanned wallet as the caller wrote it, and what ownerOf can answer:
\* the RPC client answers checksummed addresses.
walletAddress == "0x1be93c"
WalletChecksummed == "0x1be93C"
OtherChecksummed == "0xDeaD01"
Owners == {WalletChecksummed, OtherChecksummed}

\* String.prototype.toLowerCase on the addresses of the model.
ToLowerCase(a) ==
    CASE a = "0x1be93C" -> "0x1be93c"
      [] a = "0xDeaD01" -> "0xdead01"
      [] OTHER -> a

\* One chain's state: the token ids minted to the wallet in mint order (the
\* Transfer logs from 0x0), the current owner of each, and whether the wallet
\* also holds a token that was minted to somebody else.
ChainStates ==
    { [minted |-> n, owner |-> o, received |-> r] :
        n \in 0..MaxTokens, o \in [1..MaxTokens -> Owners], r \in BOOLEAN }

NoTokens == [minted |-> 0, owner |-> [t \in 1..MaxTokens |-> OtherChecksummed],
             received |-> FALSE]

\* A state is canonical when the owners of tokens that do not exist are fixed.
Canonical(st) == \A t \in 1..MaxTokens : t > st.minted => st.owner[t] = OtherChecksummed

\* getLogs: the mint events, as token ids.
Logs(c) == [j \in 1..chain[c].minted |-> j]

\* balanceOf(wallet): every token the wallet holds now.
BalanceOf(c) ==
    Cardinality({t \in 1..chain[c].minted :
                    ToLowerCase(chain[c].owner[t]) = ToLowerCase(walletAddress)})
    + (IF chain[c].received THEN 1 ELSE 0)

\* ownerOf(agentId) and tokenURI(agentId).
OwnerOf(c, agentId) == chain[c].owner[agentId]
TokenURI(c, agentId) == << "uri", c, agentId >>

\* Number(log.args.tokenId): exact for the token ids of the model.
NumberOf(tokenId) == tokenId

Tasks == 1..Len(chainIds)

\* Mutant: the ownership test of line 110 left out.
StillOwnedUnchecked(owner) == TRUE

\* The ownership test of line 110.
StillOwned(owner) == ToLowerCase(owner) = ToLowerCase(walletAddress)

\* The row pushed at lines 127-135.  task and seq are history fields (which
\* per-chain task pushed the row, and as the how-manieth push of the scan);
\* they are not part of the row the caller sees.
Row(i, c, agentId, owner, registration, seq) ==
    [ chainId |-> c,
      agentId |-> agentId,
      owner |-> owner,
      agentUri |-> TokenURI(c, agentId),
      registration |-> registration,
      globalId |-> FormatGlobalId(c, registry, agentId),
      task |-> i,
      seq |-> seq ]

\* What the caller sees of a row.
Visible(row) == [ f \in DOMAIN row \ {"task", "seq"} |-> row[f] ]
VisibleRows(rows) == [ j \in 1..Len(rows) |-> Visible(rows[j]) ]

\* Array.prototype.sort with (a, b) => a.chainId - b.chainId: stable.
RECURSIVE InsertByChainId(_, _)
InsertByChainId(row, sorted) ==
    IF sorted = << >> THEN << row >>
    ELSE IF row.chainId < sorted[Len(sorted)].chainId
         THEN Append(InsertByChainId(row, SubSeq(sorted, 1, Len(sorted) - 1)),
                     sorted[Len(sorted)])
         ELSE Append(sorted, row)

RECURSIVE SortFrom(_, _)
SortFrom(rows, sorted) ==
    IF rows = << >> THEN sorted
    ELSE SortFrom(Tail(rows), InsertByChainId(Head(rows), sorted))

\* Mutant: the collector returned in push order.
Unsorted(rows) == rows

SortByChainId(rows) == SortFrom(rows, << >>)

\* options.chainIds: every list of at most two chain ids, known or not, in any
\* order, repeats included.
ChainIdChoices == SUPPORTED_CHAINS \cup {UnknownChainId}
ChainIdLists ==
    {<< >>} \cup {<< a >> : a \in ChainIdChoices}
            \cup {<< a, b >> : a \in ChainIdChoices, b \in ChainIdChoices}

\* The state when findAllRegistrations is called: options read, collector empty,
\* no task started.  Chains the scan does not name hold no tokens.
ScanInit ==
    /\ chainIds \in ChainIdLists
    /\ fetchReg \in BOOLEAN
    /\ registryOption \in {None, Some(RegistryOverride)}
    /\ chain \in [SUPPORTED_CHAINS -> ChainStates]
    /\ \A c \in SUPPORTED_CHAINS :
          /\ Canonical(chain[c])
          /\ (\A i \in 1..Len(chainIds) : chainIds[i] # c) => chain[c] = NoTokens
    /\ pc = [i \in 1..Len(chainIds) |-> "start"]
    /\ idx = [i \in 1..Len(chainIds) |-> 0]
    /\ currentOwner = [i \in 1..Len(chainIds) |-> None]
    /\ results = << >>
    /\ scanpc = "called"
    /\ calls = [i \in 1..Len(chainIds) |-> {}]
    /\ late = [i \in 1..Len(chainIds) |-> FALSE]

\* A task's promise is settled: fulfilled ("noChain": line 57; "ok": the body ran
\* to its end; "failed", "timedOut": the catch of line 137 ran) or rejected.
Settled(i) == pc[i] \in {"noChain", "ok", "failed", "timedOut", "rejected"}

\* Lines 55-73: chainIds.map runs the head of every task, up to the await of
\* its race, before anything else can run.
LaunchTasks ==
    /\ scanpc = "called"
    /\ pc' = [i \in Tasks |-> IF chainIds[i] \in SUPPORTED_CHAINS
                               THEN "balanceOf" ELSE "noChain"]
    /\ calls' = [i \in Tasks |-> IF chainIds[i] \in SUPPORTED_CHAINS
                                  THEN {"balanceOf"} ELSE {}]
    /\ scanpc' = "scanning"
    /\ UNCHANGED << chainIds, fetchReg, registryOption, chain, idx, currentOwner,
                    results, late >>

\* Mutant: a throw with no try around it, so that the task's promise is rejected.
Rethrown(i, how) ==
    /\ idx' = [idx EXCEPT ![i] = 0]
    /\ currentOwner' = [currentOwner EXCEPT ![i] = None]
    /\ pc' = [pc EXCEPT ![i] = "rejected"]
    /\ UNCHANGED calls

\* The catch of lines 137-139: the error is dropped and the task ends.
Caught(i, how) ==
    /\ idx' = [idx EXCEPT ![i] = 0]
    /\ currentOwner' = [currentOwner EXCEPT ![i] = None]
    /\ pc' = [pc EXCEPT ![i] = how]
    /\ UNCHANGED calls

\* Mutant: the fast path of line 75 left out.
NeverZeroBalance(balance) == FALSE

\* Line 75: balance === 0n.
ZeroBalance(balance) == balance = 0

\* Lines 63-75: balanceOf answers (or throws) before the timer fires.
BalanceOfSettles(i) ==
    /\ pc[i] = "balanceOf"
    /\ \E answered \in BOOLEAN :
          IF ~answered THEN Caught(i, "failed")
          ELSE IF ZeroBalance(BalanceOf(chainIds[i]))
               THEN /\ pc' = [pc EXCEPT ![i] = "ok"]
                    /\ UNCHANGED << idx, currentOwner, calls >>
               ELSE /\ pc' = [pc EXCEPT ![i] = "getLogs"]
                    /\ calls' = [calls EXCEPT ![i] = @ \cup {"getLogs"}]
                    /\ UNCHANGED << idx, currentOwner >>
    /\ UNCHANGED << chainIds, fetchReg, registryOption, chain, results, scanpc, late >>

\* Lines 70-72: the timer of timeoutMs fires first; the race rejects and the
\* catch of line 137 ends the task.
TimerFires(i) ==
    /\ pc[i] = "balanceOf"
    /\ Caught(i, "timedOut")
    /\ UNCHANGED << chainIds, fetchReg, registryOption, chain, results, scanpc, late >>

\* Mutant: an answer of balanceOf that comes after the timer fired resumes the task.
BalanceOfAnswersLateAndResumes(i) ==
    /\ pc[i] = "timedOut"
    /\ ~late[i]
    /\ late' = [late EXCEPT ![i] = TRUE]
    /\ pc' = [pc EXCEPT ![i] = IF BalanceOf(chainIds[i]) = 0 THEN "ok" ELSE "getLogs"]
    /\ calls' = [calls EXCEPT ![i] =
                    IF BalanceOf(chainIds[i]) = 0 THEN @ ELSE @ \cup {"getLogs"}]
    /\ UNCHANGED << chainIds, fetchReg, registryOption, chain, idx, currentOwner,
                    results, scanpc >>

\* Lines 63-73: balanceOf answers after the timer fired.  The race is settled
\* already, so the answer is dropped: the task ended in its catch.
BalanceOfAnswersLate(i) ==
    /\ pc[i] = "timedOut"
    /\ ~late[i]
    /\ late' = [late EXCEPT ![i] = TRUE]
    /\ UNCHANGED << chainIds, fetchReg, registryOption, chain, pc, idx, currentOwner,
                    results, scanpc, calls >>

\* The loop head of line 98: the next log, or the end of the task.
NextLog(i, j) ==
    /\ currentOwner' = [currentOwner EXCEPT ![i] = None]
    /\ IF j < Len(Logs(chainIds[i]))
       THEN /\ idx' = [idx EXCEPT ![i] = j + 1]
            /\ pc' = [pc EXCEPT ![i] = "ownerOf"]
            /\ calls' = [calls EXCEPT ![i] = @ \cup {"ownerOf"}]
       ELSE /\ idx' = [idx EXCEPT ![i] = 0]
            /\ pc' = [pc EXCEPT ![i] = "ok"]
            /\ UNCHANGED calls

\* Lines 79-98: getLogs answers (or throws).
GetLogsSettles(i) ==
    /\ pc[i] = "getLogs"
    /\ \E answered \in BOOLEAN :
          IF answered THEN NextLog(i, 0) ELSE Caught(i, "failed")
    /\ UNCHANGED << chainIds, fetchReg, registryOption, chain, results, scanpc, late >>

\* Line 99: the agent id of the log the task is at.
AgentIdAt(i) == NumberOf(Logs(chainIds[i])[idx[i]])

\* Lines 99-110: ownerOf answers (or throws); a token that moved is skipped.
OwnerOfSettles(i) ==
    /\ pc[i] = "ownerOf"
    /\ \E answered \in BOOLEAN :
          IF ~answered THEN Caught(i, "failed")
          ELSE LET owner == OwnerOf(chainIds[i], AgentIdAt(i)) IN
               IF StillOwned(owner)
               THEN /\ pc' = [pc EXCEPT ![i] = "tokenURI"]
                    /\ currentOwner' = [currentOwner EXCEPT ![i] = Some(owner)]
                    /\ calls' = [calls EXCEPT ![i] = @ \cup {"tokenURI"}]
                    /\ UNCHANGED idx
               ELSE NextLog(i, idx[i])
    /\ UNCHANGED << chainIds, fetchReg, registryOption, chain, results, scanpc, late >>

\* Array.prototype.push on the shared collector.
Push(rows, row) == Append(rows, row)

\* Lines 127-135 and back to line 98.
PushRow(i, registration) ==
    /\ results' = Push(results,
                       Row(i, chainIds[i], AgentIdAt(i), Get(currentOwner[i]),
                           registration, Len(results) + 1))
    /\ NextLog(i, idx[i])

\* Lines 112-121: tokenURI answers (or throws); without fetchRegistration the
\* row is pushed at once.
TokenURISettles(i) ==
    /\ pc[i] = "tokenURI"
    /\ \E answered \in BOOLEAN :
          IF ~answered THEN Caught(i, "failed") /\ UNCHANGED results
          ELSE IF fetchReg
               THEN /\ pc' = [pc EXCEPT ![i] = "fetchRegistration"]
                    /\ calls' = [calls EXCEPT ![i] = @ \cup {"fetchRegistrationFile"}]
                    /\ UNCHANGED << idx, currentOwner, results >>
               ELSE PushRow(i, None)
    /\ UNCHANGED << chainIds, fetchReg, registryOption, chain, scanpc, late >>

\* Mutant: no try around fetchRegistrationFile, so that its rejection ends the
\* task in the catch of line 137.
FetchRegistrationUncaught(i) ==
    /\ pc[i] = "fetchRegistration"
    /\ \E fetched \in BOOLEAN :
          IF fetched
          THEN PushRow(i, Some(<< "file", TokenURI(chainIds[i], AgentIdAt(i)) >>))
          ELSE Caught(i, "failed") /\ UNCHANGED results
    /\ UNCHANGED << chainIds, fetchReg, registryOption, chain, scanpc, late >>

\* Lines 121-135: fetchRegistrationFile resolves, or rejects and is ignored.
FetchRegistrationSettles(i) ==
    /\ pc[i] = "fetchRegistration"
    /\ \E fetched \in BOOLEAN :
          PushRow(i, IF fetched
                     THEN Some(<< "file", TokenURI(chainIds[i], AgentIdAt(i)) >>)
                     ELSE None)
    /\ UNCHANGED << chainIds, fetchReg, registryOption, chain, scanpc, late >>

\* The RPC endpoint stops answering a call that no timer races: the await of
\* line 79, 102, 113 or 123 never settles.
RpcHangs(i) ==
    /\ pc[i] \in {"getLogs", "ownerOf", "tokenURI", "fetchRegistration"}
    /\ pc' = [pc EXCEPT ![i] = "hung"]
    /\ UNCHANGED << chainIds, fetchReg, registryOption, chain, idx, currentOwner,
                    results, scanpc, calls, late >>

\* Mutant: the join resolves as soon as one task's promise is settled.
JoinResolvedByFirst == Tasks = {} \/ \E i \in Tasks : Settled(i)

\* Line 142, Promise.allSettled: resolves once every task's promise is settled,
\* fulfilled or rejected.
JoinResolved == \A i \in Tasks : Settled(i)

\* Lines 142-145: every task has settled; sort the collector in place and return it.
AllSettled ==
    /\ scanpc = "scanning"
    /\ JoinResolved
    /\ results' = SortByChainId(results)
    /\ scanpc' = "returned"
    /\ UNCHANGED << chainIds, fetchReg, registryOption, chain, pc, idx, currentOwner,
                    calls, late >>

\* A step of the i-th task that its RPC endpoint or its timer lets happen.
TaskStep(i) ==
    \/ BalanceOfSettles(i)
    \/ TimerFires(i)
    \/ GetLogsSettles(i)
    \/ OwnerOfSettles(i)
    \/ TokenURISettles(i)
    \/ FetchRegistrationSettles(i)

\* ------------------------------------------------------------------------
\* CapabilityProbe: probeAgent
\* ------------------------------------------------------------------------

VARIABLES
    globalId,      \* the argument of probeAgent
    ppc,           \* "called", "verifyAgent", "fetch" (or "hung" in it), then
                   \* "returned" or "thrown"
    verification,  \* what verifyAgent resolved to (None: not yet, or it threw)
    result,        \* the AgentProbeResult under construction
    requests,      \* history: the HTTP requests sent so far
    response       \* history: what the MCP endpoint answered (None: nothing yet)

probeVars == << globalId, ppc, verification, result, requests, response >>

WellFormedId == "eip155:8453:0x8004A169FB4a3325136EB29fA0ceB6D2e539a432#2376"
GlobalIds == {WellFormedId, "not-an-id", ""}

\* The references the identifiers of the model can name.
References ==
    [ namespace : {"eip155"},
      chainId : ChainIdChoices,
      registry : {IDENTITY_REGISTRY_ADDRESS, RegistryOverride},
      agentId : (1..MaxTokens) \cup {2376} ]

\* parseAgentId (verify.ts): the reference that a string of the form
\* eip155:<chainId>:<registry>#<agentId> names; None stands for the
\* MalformedIdentifier it throws on any other string.
IdentifierOf ==
    [r \in References |-> FormatGlobalId(r.chainId, r.registry, r.agentId)]

ReferenceOf ==
    [id \in {IdentifierOf[r] : r \in References} |->
        CHOOSE r \in References : IdentifierOf[r] = id]

ParseAgentId(id) ==
    IF id \in DOMAIN ReferenceOf THEN Some(ReferenceOf[id]) ELSE None

\* Service names a registration file can carry; None is a service without a
\* name.  toUpperCase and toLowerCase on them.
ServiceNames == {"MCP", "mcp", "a2a", "Web", "OASF"}
ToUpperCaseName(n) ==
    CASE n = "mcp" -> "MCP"
      [] n = "a2a" -> "A2A"
      [] n = "Web" -> "WEB"
      [] OTHER -> n
ToLowerCaseName(n) ==
    CASE n = "MCP" -> "mcp"
      [] n = "Web" -> "web"
      [] n = "OASF" -> "oasf"
      [] OTHER -> n

Endpoints == {"https://a.example/mcp", "https://b.example/mcp", ""}
Services == [name : {None} \cup {Some(n) : n \in ServiceNames}, endpoint : Endpoints]
ServiceLists == UNION { [1..n -> Services] : n \in 0..MaxServices }

CrossRegistration == [agentId |-> 22775, agentRegistry |-> "eip155:1:0x8004"]

\* AgentRegistrationFile, as far as probeAgent reads it.
RegistrationFiles ==
    [ active : BOOLEAN,
      x402Support : BOOLEAN,
      services : {None} \cup {Some(l) : l \in ServiceLists},
      registrations : {None, Some(<< >>), Some(<< CrossRegistration >>)} ]

\* VerificationResult: what verifyAgent can resolve to.  A valid verdict names
\* the owner and carries no error.
VerificationResults ==
    { v \in [ valid : BOOLEAN,
              owner : {None, Some("0xA")},
              paymentWallet : {None, Some("0xB")},
              registration : {None} \cup {Some(r) : r \in RegistrationFiles},
              error : {None, Some("Agent not found")} ] :
        v.valid => (v.owner # None /\ v.error = None) }

\* One alternative of a payment challenge; a field may be missing.
Alt1 == [maxAmountRequired |-> Some("10000"), network |-> Some("eip155:8453"),
         payTo |-> Some("0xPay1")]
Alt2 == [maxAmountRequired |-> Some("20000"), network |-> Some("eip155:1"),
         payTo |-> None]
NoFields == [maxAmountRequired |-> None, network |-> None, payTo |-> None]

\* A header value and what it decodes to (base64, then JSON.parse): the empty
\* string, bytes that are not JSON, the JSON null, an object (with its own
\* fields and maybe an accepts array), or a bare array of alternatives (items:
\* its elements; an array has no accepts, maxAmountRequired, network or payTo
\* property of its own).
Payloads ==
    { [t |-> "empty", accepts |-> None, fields |-> NoFields, items |-> << >>],
      [t |-> "notJson", accepts |-> None, fields |-> NoFields, items |-> << >>],
      [t |-> "null", accepts |-> None, fields |-> NoFields, items |-> << >>],
      [t |-> "object", accepts |-> Some(<< >>), fields |-> NoFields, items |-> << >>],
      [t |-> "object", accepts |-> Some(<< Alt1 >>), fields |-> NoFields, items |-> << >>],
      [t |-> "object", accepts |-> Some(<< Alt2, Alt1 >>), fields |-> NoFields, items |-> << >>],
      [t |-> "object", accepts |-> None, fields |-> Alt1, items |-> << >>],
      [t |-> "object", accepts |-> None, fields |-> NoFields, items |-> << >>],
      [t |-> "array", accepts |-> None, fields |-> NoFields, items |-> << >>],
      [t |-> "array", accepts |-> None, fields |-> NoFields, items |-> << Alt1 >>] }

\* What fetch can settle to: a rejection (endpoint unreachable), or a response
\* with a status and maybe the x-payment-required header.
Responses ==
    { [reached |-> FALSE, status |-> 0, header |-> None] }
    \cup { [reached |-> TRUE, status |-> st, header |-> h] :
             st \in {200, 402},
             h \in {None} \cup {Some(p) : p \in Payloads} }

\* Lines 73-84.
DefaultResult(id) ==
    [ globalId |-> id,
      verified |-> FALSE,
      owner |-> None,
      paymentWallet |-> None,
      registration |-> None,
      endpoints |-> [mcp |-> None, a2a |-> None, web |-> None],
      acceptsPayment |-> FALSE,
      active |-> FALSE,
      services |-> << >>,
      registrations |-> << >>,
      paymentRequirements |-> None,
      error |-> None ]

ProbeInit ==
    /\ globalId \in GlobalIds
    /\ ppc = "called"
    /\ verification = None
    /\ result = DefaultResult("")
    /\ requests = 0
    /\ response = None

\* Lines 70-89: parse the identifier, build the default result, call verifyAgent.
\* A throw of parseAgentId has no try around it: the promise is rejected.
ProbeCall ==
    /\ ppc = "called"
    /\ IF ParseAgentId(globalId) = None
       THEN ppc' = "thrown" /\ UNCHANGED result
       ELSE ppc' = "verifyAgent" /\ result' = DefaultResult(globalId)
    /\ UNCHANGED << globalId, verification, requests, response >>

\* Lines 90-93: verifyAgent rejected.
VerifyAgentThrows ==
    /\ ppc = "verifyAgent"
    /\ \E message \in {"network down"} :
          result' = [result EXCEPT !.error = Some("Verification failed: " \o message)]
    /\ ppc' = "returned"
    /\ UNCHANGED << globalId, verification, requests, response >>

\* services.find(s => up(s.name) === wanted), lines 114-116: "throw" when the
\* search reaches a service without a name (undefined.toUpperCase()), else the
\* first match in publication order, or None.
\* Mutant: names compared as they are written.
Unfolded(how, name) == name

\* The case folding a find applies to a service's name before comparing it.
Fold(how, name) ==
    IF how = "toUpperCase" THEN ToUpperCaseName(name) ELSE ToLowerCaseName(name)

RECURSIVE FindService(_, _, _)
FindService(services, how, wanted) ==
    IF services = << >> THEN [thrown |-> FALSE, found |-> None]
    ELSE IF Head(services).name = None THEN [thrown |-> TRUE, found |-> None]
    ELSE IF Fold(how, Get(Head(services).name)) = wanted
         THEN [thrown |-> FALSE, found |-> Some(Head(services))]
         ELSE FindService(Tail(services), how, wanted)

\* reg.services?.find(...): undefined when the file has no services.
FindIn(reg, how, wanted) ==
    IF reg.services = None THEN [thrown |-> FALSE, found |-> None]
    ELSE FindService(Get(reg.services), how, wanted)

\* svc?.endpoint ?? null.
EndpointOf(found) == IF found = None THEN None ELSE Some(Get(found).endpoint)

\* Mutant: an invalid verdict's owner, wallet and file are not copied.
CopyVerdictIfValid(res, v) ==
    IF v.valid
    THEN [res EXCEPT !.verified = v.valid, !.owner = v.owner,
                     !.paymentWallet = v.paymentWallet, !.registration = v.registration]
    ELSE [res EXCEPT !.verified = v.valid]

\* Mutant: the payment wallet of the verdict is not copied.
CopyVerdictOwnerOnly(res, v) ==
    [res EXCEPT !.verified = v.valid,
                !.owner = v.owner,
                !.registration = v.registration]

\* Lines 95-98: the verdict's fields copied into the result.
CopyVerdict(res, v) ==
    [res EXCEPT !.verified = v.valid,
                !.owner = v.owner,
                !.paymentWallet = v.paymentWallet,
                !.registration = v.registration]

\* Lines 106-121: the registration's data extracted (only called when no find throws).
ExtractRegistration(res, reg) ==
    [res EXCEPT !.active = reg.active,
                !.acceptsPayment = reg.x402Support,
                !.services = IF reg.services = None THEN << >> ELSE Get(reg.services),
                !.registrations = IF reg.registrations = None THEN << >>
                                  ELSE Get(reg.registrations),
                !.endpoints =
                    [mcp |-> EndpointOf(FindIn(reg, "toUpperCase", "MCP").found),
                     a2a |-> EndpointOf(FindIn(reg, "toUpperCase", "A2A").found),
                     web |-> EndpointOf(FindIn(reg, "toLowerCase", "web").found)]]

\* A find of lines 114-116 throws.
ExtractThrows(reg) ==
    \/ FindIn(reg, "toUpperCase", "MCP").thrown
    \/ FindIn(reg, "toUpperCase", "A2A").thrown
    \/ FindIn(reg, "toLowerCase", "web").thrown

\* Line 124: result.endpoints.mcp && result.acceptsPayment (an empty string is falsy).
WantsPaymentProbe(res) ==
    /\ res.endpoints.mcp # None
    /\ Get(res.endpoints.mcp) # ""
    /\ res.acceptsPayment

\* Mutant: the verdict's error as it is, with no fallback.
VerdictErrorAsGiven(v) == v.error

\* Line 101: verification.error ?? "Identity verification failed".
VerdictError(v) ==
    IF v.error = None THEN Some("Identity verification failed") ELSE v.error

\* Lines 95-130: verifyAgent resolved; everything up to the return or to the
\* await of fetch.
VerifyAgentSettles ==
    /\ ppc = "verifyAgent"
    /\ \E v \in VerificationResults :
          LET copied == CopyVerdict(result, v) IN
          /\ verification' = Some(v)
          /\ IF ~v.valid
             THEN /\ result' = [copied EXCEPT !.error = VerdictError(v)]
                  /\ ppc' = "returned"
                  /\ UNCHANGED requests
             ELSE IF v.registration = None
             THEN /\ result' = copied
                  /\ ppc' = "returned"
                  /\ UNCHANGED requests
             ELSE IF ExtractThrows(Get(v.registration))
             THEN /\ result' = copied
                  /\ ppc' = "thrown"
                  /\ UNCHANGED requests
             ELSE LET extracted == ExtractRegistration(copied, Get(v.registration)) IN
                  /\ result' = extracted
                  /\ IF WantsPaymentProbe(extracted)
                     THEN ppc' = "fetch" /\ requests' = requests + 1
                     ELSE ppc' = "returned" /\ UNCHANGED requests
    /\ UNCHANGED << globalId, response >>

\* Lines 137-143: the payment requirements a header gives; None when the
\* JSON.parse or a property read throws, which the catch of line 144 ignores.
DecodeRequirements(payload) ==
    IF payload.t \in {"notJson", "null"} THEN None
    ELSE LET first ==
                 IF payload.t = "object" /\ payload.accepts # None
                 THEN (IF Get(payload.accepts) = << >> THEN None
                       ELSE Some(Get(payload.accepts)[1]))
                 ELSE Some(payload.fields)
         IN  IF first = None THEN None
             ELSE Some([amount |-> Get(first).maxAmountRequired,
                        network |-> Get(first).network,
                        payTo |-> Get(first).payTo])

\* Mutant: the status test of line 132 left out.
RequirementsOfAnyStatus(r) ==
    IF r.reached /\ r.header # None
    THEN (IF Get(r.header).t = "empty" THEN None
          ELSE DecodeRequirements(Get(r.header)))
    ELSE None

\* Lines 132-146: what a response adds to the result.
RequirementsOf(r) ==
    IF r.reached /\ r.status = 402 /\ r.header # None
    THEN (IF Get(r.header).t = "empty" THEN None
          ELSE DecodeRequirements(Get(r.header)))
    ELSE None

\* Mutant: the catch of line 147 records the failure as the probe's error.
AfterFetchReportingFailure(res, r) ==
    IF r.reached THEN [res EXCEPT !.paymentRequirements = RequirementsOf(r)]
    ELSE [res EXCEPT !.error = Some("MCP endpoint not reachable")]

\* Lines 126-150: the result after fetch settled; a rejection is caught at
\* line 147 and leaves the result as it is.
AfterFetch(res, r) == [res EXCEPT !.paymentRequirements = RequirementsOf(r)]

\* Lines 126-152: fetch settled; return.
FetchSettles ==
    /\ ppc = "fetch"
    /\ \E r \in Responses :
          /\ response' = Some(r)
          /\ result' = AfterFetch(result, r)
    /\ ppc' = "returned"
    /\ UNCHANGED << globalId, verification, requests >>

\* Line 126: the MCP endpoint accepted the request and never answers.  fetch
\* is called without a signal and nothing races it, so its await never settles.
FetchHangs ==
    /\ ppc = "fetch"
    /\ ppc' = "hung"
    /\ UNCHANGED << globalId, verification, result, requests, response >>

\* The variables of the program that is not running.
ProbeIdle ==
    /\ globalId = ""
    /\ ppc = "idle"
    /\ verification = None
    /\ result = DefaultResult("")
    /\ requests = 0
    /\ response = None

ScanIdle ==
    /\ chainIds = << >>
    /\ fetchReg = FALSE
    /\ registryOption = None
    /\ chain = [c \in SUPPORTED_CHAINS |-> NoTokens]
    /\ pc = << >>
    /\ idx = << >>
    /\ currentOwner = << >>
    /\ results = << >>
    /\ scanpc = "idle"
    /\ calls = << >>
    /\ late = << >>

\* ------------------------------------------------------------------------
\* Gasless accounts: createAgentAccount and AgentAccount.register
\* (the accounts package, in packages/core/src/agent.ts from line 320)
\* ------------------------------------------------------------------------

MaxCalls == 2

VARIABLES
    cdpAccounts,       \* the owner accounts the CDP project holds: [name, address]
    cdpSmartAccounts,  \* its smart accounts: [name, owner, address]
    create,            \* create[c]: the c-th call of createAgentAccount
    regAccount,        \* the call whose account register was called on (0: none yet)
    regpc,             \* where that call of register stands
    regOpts,           \* its RegisterOptions
    agentURI,          \* the data URI it built (None: not yet)
    registerResult     \* the RegisterResult it returned (None: not yet)

acctVars == << cdpAccounts, cdpSmartAccounts, create, regAccount, regpc, regOpts,
               agentURI, registerResult >>

Callers == 1..MaxCalls

\* options.name: absent, the default name written out, or another name.
AccountNameOptions == {None, Some("a3stack-agent"), Some("bot")}

\* Line 449: options.name ?? "a3stack-agent".
AccountName(name) == IF name = None THEN "a3stack-agent" ELSE Get(name)

\* Line 456: `${accountName}-owner`.
OwnerName(accountName) == accountName \o "-owner"

\* Mutant: the network fixed to mainnet.
AlwaysBase(testnet) == "base"

\* Line 448: options.testnet ? "base-sepolia" : "base".
NetworkOf(testnet) == IF testnet THEN "base-sepolia" ELSE "base"

\* A call that has not been made yet.
NotCalled == [pc |-> "idle", name |-> None, testnet |-> FALSE,
              owner |-> None, smartAccount |-> None]

\* Mutant: the account of that name is created anew whether or not one exists.
AlwaysCreate(table, name) == None

\* cdp.evm.getOrCreateAccount / getOrCreateSmartAccount: the account of that
\* name when the project has one.
Existing(table, name) ==
    IF \E a \in table : a.name = name
    THEN Some(CHOOSE a \in table : a.name = name)
    ELSE None

\* The address of an account the CDP project creates: a new one every time.
FreshAddress(kind, table) == << kind, Cardinality(table) + 1 >>

\* RegisterOptions of the accounts package (lines 364-380).
AccountServices == [type : {"MCP"}, url : {"https://a.example/mcp"}]
AccountRegisterOptions ==
    [ name : {"Bot"},
      description : {"An agent"},
      image : {None, Some(""), Some("https://a.example/bot.png")},
      services : {None, Some(<< >>)} \cup {Some(<< s >>) : s \in AccountServices},
      x402Support : {None, Some(TRUE), Some(FALSE)},
      existingRegistrations : {None, Some(<< >>), Some(<< CrossRegistration >>)} ]

AcctInit ==
    /\ cdpAccounts = {}
    /\ cdpSmartAccounts = {}
    /\ create = [c \in Callers |-> NotCalled]
    /\ regAccount = 0
    /\ regpc = "idle"
    /\ regOpts = None
    /\ agentURI = None
    /\ registerResult = None

\* Lines 443-457: the head of createAgentAccount, up to the await of
\* getOrCreateAccount.
CreateAgentAccountCall(c) ==
    /\ create[c].pc = "idle"
    /\ \E name \in AccountNameOptions, testnet \in BOOLEAN :
          create' = [create EXCEPT ![c] =
                        [NotCalled EXCEPT !.pc = "getOrCreateAccount",
                                          !.name = name, !.testnet = testnet]]
    /\ UNCHANGED << cdpAccounts, cdpSmartAccounts, regAccount, regpc, regOpts,
                    agentURI, registerResult >>

\* Lines 455-463: getOrCreateAccount settles: the owner account of that name,
\* created when the project had none; or it throws and the call rejects.
GetOrCreateAccountSettles(c) ==
    /\ create[c].pc = "getOrCreateAccount"
    /\ \E answered \in BOOLEAN :
          IF ~answered
          THEN /\ create' = [create EXCEPT ![c].pc = "rejected"]
               /\ UNCHANGED cdpAccounts
          ELSE LET name == OwnerName(AccountName(create[c].name))
                   found == Existing(cdpAccounts, name)
                   owner == IF found = None
                            THEN [name |-> name,
                                  address |-> FreshAddress("eoa", cdpAccounts)]
                            ELSE Get(found)
               IN  /\ cdpAccounts' = cdpAccounts \cup {owner}
                   /\ create' = [create EXCEPT ![c].pc = "getOrCreateSmartAccount",
                                               ![c].owner = Some(owner)]
    /\ UNCHANGED << cdpSmartAccounts, regAccount, regpc, regOpts, agentURI,
                    registerResult >>

\* Lines 460-466: getOrCreateSmartAccount settles likewise.
GetOrCreateSmartAccountSettles(c) ==
    /\ create[c].pc = "getOrCreateSmartAccount"
    /\ \E answered \in BOOLEAN :
          IF ~answered
          THEN /\ create' = [create EXCEPT ![c].pc = "rejected"]
               /\ UNCHANGED cdpSmartAccounts
          ELSE LET name == AccountName(create[c].name)
                   found == Existing(cdpSmartAccounts, name)
                   smart == IF found = None
                            THEN [name |-> name,
                                  owner |-> Get(create[c].owner).address,
                                  address |-> FreshAddress("smart", cdpSmartAccounts)]
                            ELSE Get(found)
               IN  /\ cdpSmartAccounts' = cdpSmartAccounts \cup {smart}
                   /\ create' = [create EXCEPT ![c].pc = "useNetwork",
                                               ![c].smartAccount = Some(smart)]
    /\ UNCHANGED << cdpAccounts, regAccount, regpc, regOpts, agentURI,
                    registerResult >>

\* Lines 466-538: useNetwork settles; the AgentAccount is built and returned.
UseNetworkSettles(c) ==
    /\ create[c].pc = "useNetwork"
    /\ \E answered \in BOOLEAN :
          create' = [create EXCEPT ![c].pc = IF answered THEN "returned" ELSE "rejected"]
    /\ UNCHANGED << cdpAccounts, cdpSmartAccounts, regAccount, regpc, regOpts,
                    agentURI, registerResult >>

\* Lines 469-472: the AgentAccount the c-th call returned.
AgentAccountOf(c) ==
    [ address |-> Get(create[c].smartAccount).address,
      ownerAddress |-> Get(create[c].owner).address,
      network |-> NetworkOf(create[c].testnet) ]

REGISTRATION_TYPE == "https://eips.ethereum.org/EIPS/eip-8004#registration-v1"

\* Lines 494-503: the registration object (image None: the key is not there).
RegistrationOf(opts) ==
    [ type |-> REGISTRATION_TYPE,
      name |-> opts.name,
      description |-> opts.description,
      image |-> IF opts.image # None /\ Get(opts.image) # "" THEN opts.image ELSE None,
      services |-> IF opts.services = None THEN << >> ELSE Get(opts.services),
      x402Support |-> IF opts.x402Support = None THEN FALSE ELSE Get(opts.x402Support),
      active |-> TRUE,
      registrations |-> IF opts.existingRegistrations = None THEN << >>
                        ELSE Get(opts.existingRegistrations) ]

\* Line 505, JSON.stringify: the members of the object, in the order of its
\* keys, as a text of key/value pairs.
JsonStringify(registration) ==
    << << "type", registration.type >>,
       << "name", registration.name >>,
       << "description", registration.description >> >>
    \o (IF registration.image = None THEN << >>
        ELSE << << "image", Get(registration.image) >> >>)
    \o << << "services", registration.services >>,
          << "x402Support", registration.x402Support >>,
          << "active", registration.active >>,
          << "registrations", registration.registrations >> >>

\* Line 506: the data URI around the base64 of the JSON text.
ToBase64(text) == << "base64", text >>
DataUri(json) == << "data:application/json;base64,", ToBase64(json) >>

\* Lines 492-522: the head of register, up to the await of sendUserOperation.
\* register is called on an account that a call of createAgentAccount
\* returned, here once the calls of createAgentAccount have all settled.
RegisterCall(c) ==
    /\ regpc = "idle"
    /\ \A k \in Callers : create[k].pc \in {"returned", "rejected"}
    /\ create[c].pc = "returned"
    /\ \E opts \in AccountRegisterOptions :
          /\ regOpts' = Some(opts)
          /\ agentURI' = Some(DataUri(JsonStringify(RegistrationOf(opts))))
    /\ regAccount' = c
    /\ regpc' = "sendUserOperation"
    /\ UNCHANGED << cdpAccounts, cdpSmartAccounts, create, registerResult >>

\* Lines 516-524: sendUserOperation settles.
SendUserOperationSettles ==
    /\ regpc = "sendUserOperation"
    /\ \E answered \in BOOLEAN :
          regpc' = IF answered THEN "waitForUserOperation" ELSE "rejected"
    /\ UNCHANGED << cdpAccounts, cdpSmartAccounts, create, regAccount, regOpts,
                    agentURI, registerResult >>

\* Lines 527-534: the RegisterResult.
RegisterResultOf(c) ==
    [ transactionHash |-> "0xtx",
      userOpHash |-> "0xop",
      smartAccountAddress |-> Get(create[c].smartAccount).address,
      network |-> NetworkOf(create[c].testnet),
      gasCost |-> 0,
      sponsored |-> TRUE ]

\* Lines 524-534: waitForUserOperation settles; the result is returned.
WaitForUserOperationSettles ==
    /\ regpc = "waitForUserOperation"
    /\ \E answered \in BOOLEAN :
          IF answered
          THEN /\ regpc' = "returned"
               /\ registerResult' = Some(RegisterResultOf(regAccount))
          ELSE /\ regpc' = "rejected"
               /\ UNCHANGED registerResult
    /\ UNCHANGED << cdpAccounts, cdpSmartAccounts, create, regAccount, regOpts,
                    agentURI >>

AcctIdle ==
    /\ cdpAccounts = {}
    /\ cdpSmartAccounts = {}
    /\ create = << >>
    /\ regAccount = 0
    /\ regpc = "off"
    /\ regOpts = None
    /\ agentURI = None
    /\ registerResult = None

\* ------------------------------------------------------------------------
\* A3Stack: register, start, stop, tool, resource and the getters
\* (packages/core/src/agent.ts, lines 16-262)
\* ------------------------------------------------------------------------

MaxAgentId == 1

VARIABLES
    config,         \* the A3StackConfig: [server, chainId]
    thisAgentId,    \* this._agentId (None: undefined)
    thisServerUrl,  \* this._serverUrl (None: undefined)
    listening,      \* whether the MCP server listens
    tools,          \* the names of the tools the MCP server has
    resources,      \* the names of its resources
    registerCall,   \* the call of register: [pc, options, reported, invoked]
    startCall,      \* the call of start: [pc, port]
    onChain,        \* the agent id the registry holds for the wallet (None: none)
    submitted,      \* what the call of register handed to identity.register,
                    \* with the server URL of that moment (None: nothing)
    returnedId,     \* the agent id identity.register last returned
    lastStart,      \* the URL of the last start() that completed
    lastEvent       \* the last call that threw, or a stop: "registerThrew",
                    \* "startThrew", "toolThrew", "resourceThrew", "stopped"

stackVars == << config, thisAgentId, thisServerUrl, listening, tools, resources,
                registerCall, startCall, onChain, submitted, returnedId,
                lastStart, lastEvent >>

\* The agent ids the registry can return: it counts from 0.
AgentIds == 0..MaxAgentId

BaseChainId == 8453

\* A3StackConfig (lines 272-308), as far as these methods read it.
Configs == [server : BOOLEAN, chainId : {BaseChainId}]

\* Mutant: an MCP server whether or not one is configured.
McpServerAlways(cfg) == TRUE

\* Lines 42-58: the constructor makes this.mcpServer when config.server is set.
McpServer(cfg) == cfg.server

\* The services a caller passes to register (the identity package's
\* AgentService: a name and an endpoint).
CallerService(name) == [name |-> name, endpoint |-> "https://a.example/" \o name]
CallerServiceLists ==
    { << CallerService("a2a") >>,
      << CallerService("MCP") >>,
      << CallerService("mcp") >>,
      << CallerService("a2a"), CallerService("mcp") >>,
      << CallerService("MCP"), CallerService("a2a") >> }

\* A3StackRegisterOptions (lines 310-318).
A3StackRegisterOptions ==
    [ services : {None} \cup {Some(l) : l \in CallerServiceLists},
      includeServerEndpoint : {None, Some(TRUE), Some(FALSE)},
      mcpUrl : {None, Some("https://public.example/mcp")} ]

\* start(port): no port, or one; and the URL listen answers for it.
Ports == {None, Some(4000)}
UrlOf(port) == IF port = None THEN "http://localhost:3000/mcp"
               ELSE "http://localhost:4000/mcp"

ToolNames == {"ping"}
ResourceNames == {"card"}

NoRegisterCall == [pc |-> "idle", options |-> None, reported |-> None, invoked |-> 0]
NoStartCall == [pc |-> "idle", port |-> None]

StackInit ==
    /\ config \in Configs
    /\ thisAgentId = None
    /\ thisServerUrl = None
    /\ listening = FALSE
    /\ tools = {}
    /\ resources = {}
    /\ registerCall = NoRegisterCall
    /\ startCall = NoStartCall
    /\ onChain \in {None, Some(MaxAgentId)}
    /\ submitted = None
    /\ returnedId = None
    /\ lastStart = None
    /\ lastEvent = "none"

\* Lines 223-225: get agentId.
agentId == thisAgentId

\* Lines 230-233: get globalId; !this._agentId is also true of the id 0.
GlobalIdOf(id) ==
    IF id = None \/ Get(id) = 0 THEN None
    ELSE Some(FormatGlobalId(config.chainId, IDENTITY_REGISTRY_ADDRESS, Get(id)))

\* Lines 238-240: get serverUrl.
serverUrl == thisServerUrl

\* Mutant: the name compared as written.
HasMcpExactCase(services) == \E i \in DOMAIN services : services[i].name = "MCP"

\* Line 86: services.some((s) => s.name.toUpperCase() === "MCP").
HasMcp(services) ==
    \E i \in DOMAIN services : ToUpperCaseName(services[i].name) = "MCP"

\* Lines 80-94: the services register submits.
ServicesToSubmit(options, url) ==
    LET services == IF options.services = None THEN << >> ELSE Get(options.services)
    IN  IF /\ options.includeServerEndpoint # Some(FALSE)
           /\ config.server
           /\ url # None
           /\ ~HasMcp(services)
        THEN Append(services,
                    [ name |-> "MCP",
                      endpoint |-> IF options.mcpUrl # None THEN Get(options.mcpUrl)
                                   ELSE Get(url),
                      version |-> "2025-06-18" ])
        ELSE services

\* Mutant: the answer of isRegistered not looked at.
NeverRegistered(reported) == FALSE

\* Line 72: if (registered).
AlreadyRegistered(reported) == reported

\* Lines 65-71: register is called, up to the await of isRegistered. A new
\* call is made once the call before it has ended.
A3StackRegister ==
    /\ registerCall.pc \in {"idle", "returned", "threw"}
    /\ \E options \in A3StackRegisterOptions :
          registerCall' = [pc |-> "isRegistered", options |-> Some(options),
                           reported |-> None, invoked |-> 0]
    /\ submitted' = None
    /\ UNCHANGED << config, thisAgentId, thisServerUrl, listening, tools, resources,
                    startCall, onChain, returnedId, lastStart, lastEvent >>

\* Lines 71-96: isRegistered settles. It throws, or it reports what the
\* registry holds; a registered agent makes register throw, otherwise the
\* services are put together and identity.register is called.
IsRegisteredSettles ==
    /\ registerCall.pc = "isRegistered"
    /\ \E answered \in BOOLEAN :
          IF ~answered
          THEN /\ registerCall' = [registerCall EXCEPT !.pc = "threw"]
               /\ lastEvent' = "registerThrew"
               /\ UNCHANGED submitted
          ELSE LET reported == onChain # None
               IN  IF AlreadyRegistered(reported)
                   THEN /\ registerCall' = [registerCall EXCEPT !.pc = "threw",
                                                                 !.reported = Some(reported)]
                        /\ lastEvent' = "registerThrew"
                        /\ UNCHANGED submitted
                   ELSE /\ registerCall' = [registerCall EXCEPT
                                                !.pc = "identityRegister",
                                                !.reported = Some(reported),
                                                !.invoked = @ + 1]
                        /\ submitted' =
                              Some([ serverUrl |-> thisServerUrl,
                                     services |-> ServicesToSubmit(Get(registerCall.options),
                                                                   thisServerUrl) ])
                        /\ UNCHANGED lastEvent
    /\ UNCHANGED << config, thisAgentId, thisServerUrl, listening, tools, resources,
                    startCall, onChain, returnedId, lastStart >>

\* Lines 96-98: identity.register settles. It throws, or the registry mints
\* an agent id and register keeps it.
IdentityRegisterSettles ==
    /\ registerCall.pc = "identityRegister"
    /\ \E answered \in BOOLEAN :
          IF ~answered
          THEN /\ registerCall' = [registerCall EXCEPT !.pc = "threw"]
               /\ lastEvent' = "registerThrew"
               /\ UNCHANGED << thisAgentId, onChain, returnedId >>
          ELSE \E id \in AgentIds :
                  /\ registerCall' = [registerCall EXCEPT !.pc = "returned"]
                  /\ thisAgentId' = Some(id)
                  /\ onChain' = Some(id)
                  /\ returnedId' = Some(id)
                  /\ UNCHANGED lastEvent
    /\ UNCHANGED << config, thisServerUrl, listening, tools, resources, startCall,
                    submitted, lastStart >>

\* Lines 105-111: start is called; it throws without an MCP server, and
\* otherwise awaits listen.
A3StackStart ==
    /\ startCall.pc = "idle"
    /\ \E port \in Ports :
          IF ~McpServer(config)
          THEN /\ lastEvent' = "startThrew"
               /\ UNCHANGED startCall
          ELSE /\ startCall' = [pc |-> "listen", port |-> port]
               /\ UNCHANGED lastEvent
    /\ UNCHANGED << config, thisAgentId, thisServerUrl, listening, tools, resources,
                    registerCall, onChain, submitted, returnedId, lastStart >>

\* Lines 111-113: listen settles; its URL is kept when it answers.
ListenSettles ==
    /\ startCall.pc = "listen"
    /\ \E answered \in BOOLEAN :
          IF answered
          THEN /\ thisServerUrl' = Some(UrlOf(startCall.port))
               /\ lastStart' = Some(UrlOf(startCall.port))
               /\ listening' = TRUE
               /\ UNCHANGED lastEvent
          ELSE /\ lastEvent' = "startThrew"
               /\ UNCHANGED << thisServerUrl, lastStart, listening >>
    /\ startCall' = NoStartCall
    /\ UNCHANGED << config, thisAgentId, tools, resources, registerCall, onChain,
                    submitted, returnedId >>

\* Lines 119-121: stop closes the MCP server when there is one.
A3StackStop ==
    /\ listening' = FALSE
    /\ lastEvent' = "stopped"
    /\ UNCHANGED << config, thisAgentId, thisServerUrl, tools, resources,
                    registerCall, startCall, onChain, submitted, returnedId,
                    lastStart >>

\* Lines 128-139: tool throws without an MCP server, and otherwise hands the
\* tool to it.
A3StackTool ==
    /\ \E name \in ToolNames :
          IF ~McpServer(config)
          THEN /\ lastEvent' = "toolThrew"
               /\ UNCHANGED tools
          ELSE /\ tools' = tools \cup {name}
               /\ UNCHANGED lastEvent
    /\ UNCHANGED << config, thisAgentId, thisServerUrl, listening, resources,
                    registerCall, startCall, onChain, submitted, returnedId,
                    lastStart >>

\* Lines 144-154: resource likewise.
A3StackResource ==
    /\ \E name \in ResourceNames :
          IF ~McpServer(config)
          THEN /\ lastEvent' = "resourceThrew"
               /\ UNCHANGED resources
          ELSE /\ resources' = resources \cup {name}
               /\ UNCHANGED lastEvent
    /\ UNCHANGED << config, thisAgentId, thisServerUrl, listening, tools,
                    registerCall, startCall, onChain, submitted, returnedId,
                    lastStart >>

StackIdle ==
    /\ config = [server |-> FALSE, chainId |-> BaseChainId]
    /\ thisAgentId = None
    /\ thisServerUrl = None
    /\ listening = FALSE
    /\ tools = {}
    /\ resources = {}
    /\ registerCall = [NoRegisterCall EXCEPT !.pc = "off"]
    /\ startCall = [NoStartCall EXCEPT !.pc = "off"]
    /\ onChain = None
    /\ submitted = None
    /\ returnedId = None
    /\ lastStart = None
    /\ lastEvent = "none"

\* ------------------------------------------------------------------------
\* Specifications
\* ------------------------------------------------------------------------

vars == << scanVars, probeVars, acctVars, stackVars >>

\* A step of one program leaves the other programs alone.
OfScan(A) == A /\ UNCHANGED << probeVars, acctVars, stackVars >>
OfProbe(A) == A /\ UNCHANGED << scanVars, acctVars, stackVars >>
OfAcct(A) == A /\ UNCHANGED << scanVars, probeVars, stackVars >>
OfStack(A) == A /\ UNCHANGED << scanVars, probeVars, acctVars >>

\* A scan, with no other program running.
ScanSpecInit == ScanInit /\ ProbeIdle /\ AcctIdle /\ StackIdle

ScanNext ==
    \/ OfScan(LaunchTasks)
    \/ \E i \in Tasks : OfScan(BalanceOfSettles(i))
    \/ \E i \in Tasks : OfScan(TimerFires(i))
    \/ \E i \in Tasks : OfScan(GetLogsSettles(i))
    \/ \E i \in Tasks : OfScan(OwnerOfSettles(i))
    \/ \E i \in Tasks : OfScan(TokenURISettles(i))
    \/ \E i \in Tasks : OfScan(FetchRegistrationSettles(i))
    \/ \E i \in Tasks : OfScan(RpcHangs(i))
    \/ \E i \in Tasks : OfScan(BalanceOfAnswersLate(i))
    \/ OfScan(AllSettled)

ScanSpec == ScanSpecInit /\ [][ScanNext]_vars

\* Every call that can settle does, and the join runs once it can.  A call the
\* RPC endpoint stopped answering (RpcHangs) never settles.
ScanFairSpec ==
    /\ ScanSpec
    /\ WF_vars(OfScan(LaunchTasks))
    /\ \A i \in 1..2 : WF_vars(i \in Tasks /\ OfScan(TaskStep(i)))
    /\ WF_vars(OfScan(AllSettled))

\* A probe, with no other program running.
ProbeSpecInit == ProbeInit /\ ScanIdle /\ AcctIdle /\ StackIdle

ProbeNext ==
    \/ OfProbe(ProbeCall)
    \/ OfProbe(VerifyAgentThrows)
    \/ OfProbe(VerifyAgentSettles)
    \/ OfProbe(FetchSettles)
    \/ OfProbe(FetchHangs)

ProbeSpec == ProbeSpecInit /\ [][ProbeNext]_vars

\* The synchronous head of the call runs, and a request that can settle does.
\* A request the endpoint never answers (FetchHangs) never settles; nothing is
\* assumed of verifyAgent, which is not this module's code.
ProbeFairSpec ==
    /\ ProbeSpec
    /\ WF_vars(OfProbe(ProbeCall))
    /\ WF_vars(OfProbe(FetchSettles))

\* Calls of createAgentAccount with the same credentials, and a call of
\* register on an account they returned.
AcctSpecInit == AcctInit /\ ScanIdle /\ ProbeIdle /\ StackIdle

AcctNext ==
    \/ \E c \in Callers : OfAcct(CreateAgentAccountCall(c))
    \/ \E c \in Callers : OfAcct(GetOrCreateAccountSettles(c))
    \/ \E c \in Callers : OfAcct(GetOrCreateSmartAccountSettles(c))
    \/ \E c \in Callers : OfAcct(UseNetworkSettles(c))
    \/ \E c \in Callers : OfAcct(RegisterCall(c))
    \/ OfAcct(SendUserOperationSettles)
    \/ OfAcct(WaitForUserOperationSettles)

AcctSpec == AcctSpecInit /\ [][AcctNext]_vars

\* An A3Stack whose caller calls register, start, stop, tool and resource in
\* any order; a call of register and a call of start may overlap.
StackSpecInit == StackInit /\ ScanIdle /\ ProbeIdle /\ AcctIdle

StackNext ==
    \/ OfStack(A3StackRegister)
    \/ OfStack(IsRegisteredSettles)
    \/ OfStack(IdentityRegisterSettles)
    \/ OfStack(A3StackStart)
    \/ OfStack(ListenSettles)
    \/ OfStack(A3StackStop)
    \/ OfStack(A3StackTool)
    \/ OfStack(A3StackResource)

StackSpec == StackSpecInit /\ [][StackNext]_vars

\* ------------------------------------------------------------------------
\* Properties
\* ------------------------------------------------------------------------

\* C1: probeAgent never throws or rejects, whatever the identifier, the outcome
\* of verifyAgent and the registration's content; and a result whose identity
\* is not verified has verified = false and an error.
C1_ProbeNeverThrows ==
    /\ ppc # "thrown"
    /\ (ppc = "returned" /\ ~result.verified) => result.error # None

\* The rows a chain holds for the wallet: the tokens minted to it that it
\* still owns.
OwnedTokens(c) ==
    {t \in 1..chain[c].minted :
        ToLowerCase(chain[c].owner[t]) = ToLowerCase(walletAddress)}

HasRow(i, c, t) ==
    \E j \in 1..Len(results) :
        /\ results[j].task = i
        /\ results[j].chainId = c
        /\ results[j].agentId = t

\* C2: findAllRegistrations never rejects: no task's promise is rejected, the
\* scan only ever resolves, and the array it resolves to holds every row of
\* every chain whose calls all succeeded, whatever the other chains' tasks did.
C2_ScanResolvesWithEverySuccess ==
    /\ scanpc \in {"called", "scanning", "returned"}
    /\ \A i \in Tasks : pc[i] # "rejected"
    /\ scanpc = "returned" =>
          \A i \in Tasks :
              pc[i] = "ok" => \A t \in OwnedTokens(chainIds[i]) : HasRow(i, chainIds[i], t)

\* C2, reached: the scan returned a row of a chain that succeeded although
\* another chain's task threw or timed out.
C2_Witness ==
    /\ scanpc = "returned"
    /\ \E i \in Tasks : pc[i] \in {"failed", "timedOut"}
    /\ \E i \in Tasks : pc[i] = "ok" /\ \E t \in OwnedTokens(chainIds[i]) : HasRow(i, chainIds[i], t)

\* C3: every row's owner is the ownerOf answer for its agent id and equals the
\* scanned wallet up to case; a token whose owner is another address has no row.
C3_OwnershipCurrency ==
    /\ \A j \in 1..Len(results) :
          /\ results[j].owner = OwnerOf(results[j].chainId, results[j].agentId)
          /\ ToLowerCase(results[j].owner) = ToLowerCase(walletAddress)
    /\ \A i \in Tasks :
          chainIds[i] \in SUPPORTED_CHAINS =>
              \A t \in 1..chain[chainIds[i]].minted :
                  OwnerOf(chainIds[i], t) = OtherChecksummed => ~HasRow(i, chainIds[i], t)

\* C3, reached: a scan returned a row for a chain on which another token,
\* minted to the wallet, now belongs to somebody else.
C3_Witness ==
    /\ scanpc = "returned"
    /\ \E i \in Tasks :
          /\ pc[i] = "ok"
          /\ \E t \in 1..chain[chainIds[i]].minted : OwnerOf(chainIds[i], t) = OtherChecksummed
          /\ \E t \in 1..chain[chainIds[i]].minted : HasRow(i, chainIds[i], t)

\* The rows task i pushed, in the order it pushed them.
SelectTask(rows, i) == SelectSeq(rows, LAMBDA row : row.task = i)

\* The rows of all tasks, task after task in the order of chainIds.
RECURSIVE RowsInTaskOrder(_, _)
RowsInTaskOrder(rows, i) ==
    IF i > Len(chainIds) THEN << >>
    ELSE SelectTask(rows, i) \o RowsInTaskOrder(rows, i + 1)

\* C4: the returned sequence of rows does not depend on the interleaving of the
\* tasks: it is what the scan returns when the tasks run one after the other.
C4_Determinism ==
    scanpc = "returned" =>
        VisibleRows(results) = VisibleRows(SortByChainId(RowsInTaskOrder(results, 1)))

\* C5: the returned array is sorted ascending by chainId.
C5_SortedByChainId ==
    scanpc = "returned" =>
        \A j \in 1..Len(results) : \A k \in 1..Len(results) :
            j < k => results[j].chainId <= results[k].chainId

\* C5, reached: the scan returned rows of two chains that were pushed in the
\* other order.
C5_Witness ==
    /\ scanpc = "returned"
    /\ \E j \in 1..Len(results) : \E k \in 1..Len(results) :
          /\ j < k
          /\ results[j].chainId < results[k].chainId
          /\ results[j].seq > results[k].seq

\* C6: paymentRequirements is present only if acceptsPayment is true, an MCP
\* endpoint was resolved, the request completed and the status was 402.
C6_RequirementsOnlyAfter402 ==
    result.paymentRequirements # None =>
        /\ result.acceptsPayment
        /\ result.endpoints.mcp # None
        /\ requests = 1
        /\ response # None
        /\ Get(response).reached
        /\ Get(response).status = 402

\* C6, reached: a probe returned payment requirements.
C6_Witness ==
    /\ ppc = "returned"
    /\ result.paymentRequirements # None

\* The payment round-trip failed: the endpoint was unreachable, the status was
\* not 402, the header was missing or empty, or decoding it threw (no JSON, the
\* JSON null, an empty list of alternatives).
RoundTripFailed(r) ==
    \/ ~r.reached
    \/ r.status # 402
    \/ r.header = None
    \/ /\ r.header # None
       /\ \/ Get(r.header).t \in {"empty", "notJson", "null"}
          \/ Get(r.header).t = "object" /\ Get(r.header).accepts = Some(<< >>)

\* C7: when the verdict is valid and the payment round-trip fails, the result
\* is verified, has no error and no paymentRequirements, and every other field
\* is what the verdict and the registration alone give.
C7_ProbeDegradation ==
    (ppc = "returned" /\ response # None /\ RoundTripFailed(Get(response))) =>
        /\ Get(verification).valid
        /\ result.verified
        /\ result.error = None
        /\ result.paymentRequirements = None
        /\ result = ExtractRegistration(
                        [DefaultResult(globalId) EXCEPT
                            !.verified = TRUE,
                            !.owner = Get(verification).owner,
                            !.paymentWallet = Get(verification).paymentWallet,
                            !.registration = Get(verification).registration],
                        Get(Get(verification).registration))

\* C7, reached: a probe of an agent with services returned after its request
\* found the endpoint unreachable.
C7_Witness ==
    /\ ppc = "returned"
    /\ response # None
    /\ ~Get(response).reached
    /\ result.services # << >>

\* C8: when one chain's RPC endpoint stops answering a call while the calls of
\* another chain complete, the scan still returns.
C8_HungChainCannotStall ==
    ((\E i \in Tasks :
         /\ pc[i] = "hung"
         /\ \E k \in Tasks \ {i} : pc[k] = "ok"
         /\ \A k \in Tasks \ {i} : Settled(k))
        ~> (scanpc = "returned"))

\* C9: a chain whose task threw or timed out contributes no row.
C9_FailedChainHasNoRows ==
    \A i \in Tasks :
        pc[i] \in {"failed", "timedOut"} =>
            \A j \in 1..Len(results) : results[j].task # i

\* C10 as claimed: after an invalid verdict the probe returns with the
\* verdict's error, no request sent, and every other field at its default.
C10_InvalidLeavesDefaults ==
    (ppc = "returned" /\ verification # None /\ ~Get(verification).valid) =>
        /\ requests = 0
        /\ result.error # None
        /\ Get(verification).error # None => result.error = Get(verification).error
        /\ [result EXCEPT !.error = None] = DefaultResult(globalId)

\* C10, amended: after an invalid verdict the probe returns with verified =
\* false, the verdict's error (or "Identity verification failed" when it has
\* none), no request sent, owner, paymentWallet and registration as the
\* verdict carried them, and every other field at its default.
C10_InvalidKeepsVerdictFields ==
    (ppc = "returned" /\ verification # None /\ ~Get(verification).valid) =>
        /\ requests = 0
        /\ result.error = (IF Get(verification).error = None
                           THEN Some("Identity verification failed")
                           ELSE Get(verification).error)
        /\ result = [DefaultResult(globalId) EXCEPT
                        !.owner = Get(verification).owner,
                        !.paymentWallet = Get(verification).paymentWallet,
                        !.registration = Get(verification).registration,
                        !.error = result.error]

\* C10, reached: a probe returned after an invalid verdict that named an owner
\* and carried a registration declaring an MCP service and x402 support.
C10_Witness ==
    /\ ppc = "returned"
    /\ verification # None
    /\ ~Get(verification).valid
    /\ Get(verification).owner # None
    /\ Get(verification).registration # None
    /\ Get(Get(verification).registration).x402Support
    /\ Get(Get(verification).registration).services
          = Some(<< [name |-> Some("MCP"), endpoint |-> "https://a.example/mcp"] >>)

\* C11: when the verdict is valid and the MCP endpoint accepts the request but
\* never answers, probeAgent still returns, without paymentRequirements.
C11_SilentEndpointCannotStall ==
    ((ppc = "hung") ~> (ppc = "returned" /\ result.paymentRequirements = None))

\* The registration declares an MCP endpoint: its first service named MCP, in
\* any case, has an endpoint that is not empty.
RECURSIVE FirstNamed(_, _)
FirstNamed(services, lower) ==
    IF services = << >> THEN None
    ELSE IF Head(services).name # None
            /\ ToLowerCaseName(Get(Head(services).name)) = lower
         THEN Some(Head(services))
         ELSE FirstNamed(Tail(services), lower)

ServicesOf(reg) == IF reg.services = None THEN << >> ELSE Get(reg.services)

DeclaresMcp(reg) ==
    /\ FirstNamed(ServicesOf(reg), "mcp") # None
    /\ Get(FirstNamed(ServicesOf(reg), "mcp")).endpoint # ""

\* C12: when a call of probeAgent has ended, it has sent exactly one request
\* if the verdict was valid and its registration declares an MCP endpoint and
\* x402 support, and none in every other case.
C12_ExactlyOneRequest ==
    ppc \in {"returned", "thrown", "hung"} =>
        requests = (IF /\ verification # None
                       /\ Get(verification).valid
                       /\ Get(verification).registration # None
                       /\ Get(Get(verification).registration).x402Support
                       /\ DeclaresMcp(Get(Get(verification).registration))
                    THEN 1 ELSE 0)

\* C13: after a valid verdict with a registration, each of endpoints.mcp, .a2a
\* and .web is the endpoint of the first service, in publication order, whose
\* name is "MCP", "A2A", "web" in any case, or null when there is none; and
\* active, acceptsPayment, services and registrations are the registration's
\* active, x402Support, services and registrations.
C13_EndpointResolution ==
    (/\ ppc = "returned"
     /\ verification # None
     /\ Get(verification).valid
     /\ Get(verification).registration # None) =>
        LET reg == Get(Get(verification).registration) IN
        /\ result.endpoints.mcp = EndpointOf(FirstNamed(ServicesOf(reg), "mcp"))
        /\ result.endpoints.a2a = EndpointOf(FirstNamed(ServicesOf(reg), "a2a"))
        /\ result.endpoints.web = EndpointOf(FirstNamed(ServicesOf(reg), "web"))
        /\ result.active = reg.active
        /\ result.acceptsPayment = reg.x402Support
        /\ result.services = ServicesOf(reg)
        /\ result.registrations
              = (IF reg.registrations = None THEN << >> ELSE Get(reg.registrations))

\* C13, reached: a probe returned for a registration with two services named
\* MCP, in different case and with different endpoints, and a cross-registration.
C13_Witness ==
    /\ ppc = "returned"
    /\ verification # None
    /\ Get(verification).valid
    /\ Get(verification).registration # None
    /\ Get(Get(verification).registration).services
          = Some(<< [name |-> Some("mcp"), endpoint |-> "https://b.example/mcp"],
                    [name |-> Some("MCP"), endpoint |-> "https://a.example/mcp"] >>)
    /\ Get(Get(verification).registration).registrations = Some(<< CrossRegistration >>)
    /\ result.endpoints.mcp = Some("https://b.example/mcp")

\* The alternatives a decoded payload lists: its accepts array, or its own
\* elements when it is a bare array; None when it is a bare object.
AlternativesOf(payload) ==
    IF payload.t = "array" THEN Some(payload.items) ELSE payload.accepts

RequirementsFrom(alt) ==
    [amount |-> alt.maxAmountRequired, network |-> alt.network, payTo |-> alt.payTo]

\* C14: after a 402 whose header decodes to an object or to an array,
\* paymentRequirements is taken from the first alternative when the payload
\* lists alternatives (an accepts array or a bare array), from the payload
\* itself when it is a bare object, and is absent when the list is empty.
C14_DecodesChallenge ==
    (/\ ppc = "returned"
     /\ response # None
     /\ Get(response).reached
     /\ Get(response).status = 402
     /\ Get(response).header # None
     /\ Get(Get(response).header).t \in {"object", "array"}) =>
        LET payload == Get(Get(response).header)
            alts == AlternativesOf(payload) IN
        result.paymentRequirements =
            (IF alts = None THEN Some(RequirementsFrom(payload.fields))
             ELSE IF Get(alts) = << >> THEN None
             ELSE Some(RequirementsFrom(Get(alts)[1])))

RowsOfTask(i) == {j \in 1..Len(results) : results[j].task = i}

\* C15: a chain whose timer fired before balanceOf answered is abandoned: the
\* task ended without rejecting, it has no row, and balanceOf is the only call
\* it ever issued, also after balanceOf answered late.
C15_TimedOutChainAbandoned ==
    \A i \in Tasks :
        (pc[i] = "timedOut" \/ late[i]) =>
            /\ pc[i] = "timedOut"
            /\ calls[i] = {"balanceOf"}
            /\ RowsOfTask(i) = {}

\* C15, reached: the scan returned, and afterwards balanceOf answered on a
\* chain that had timed out and on which the wallet owns a token minted to it.
C15_Witness ==
    /\ scanpc = "returned"
    /\ \E i \in Tasks : late[i] /\ OwnedTokens(chainIds[i]) # {}

C17_FetchFailureKeepsRow ==
    [][\A i \in Tasks :
          (pc[i] = "fetchRegistration" /\ pc'[i] \notin {"fetchRegistration", "hung"}) =>
              /\ Len(results') = Len(results) + 1
              /\ results'[Len(results')].task = i
              /\ results'[Len(results')].chainId = chainIds[i]
              /\ results'[Len(results')].agentId = AgentIdAt(i)
              /\ results'[Len(results')].registration
                    \in {None, Some(<< "file", TokenURI(chainIds[i], AgentIdAt(i)) >>)}
              /\ pc'[i] = (IF idx[i] < Len(Logs(chainIds[i])) THEN "ownerOf" ELSE "ok")]_vars

\* C17, reached: a scan that fetches registrations returned a row without a
\* registration and a row the same task pushed after it.
C17_Witness ==
    /\ scanpc = "returned"
    /\ fetchReg
    /\ \E j \in 1..Len(results) : \E k \in 1..Len(results) :
          /\ results[j].task = results[k].task
          /\ results[j].seq < results[k].seq
          /\ results[j].registration = None

\* C18: every row's globalId is eip155:<chainId>:<registry>#<agentId> for the
\* row's own chainId and agentId and the registry of the scan (the override
\* when one is given), and parsing it gives these three back.
C18_GlobalIdOfRow ==
    scanpc = "returned" =>
    \A j \in 1..Len(results) :
        LET used == IF registryOption = None THEN IDENTITY_REGISTRY_ADDRESS
                    ELSE Get(registryOption)
            ref == [namespace |-> "eip155", chainId |-> results[j].chainId,
                    registry |-> used, agentId |-> results[j].agentId] IN
        /\ results[j].globalId = IdentifierOf[ref]
        /\ ParseAgentId(results[j].globalId) = Some(ref)

\* C18, reached: a scan with a registry override returned rows of two chains.
C18_Witness ==
    /\ scanpc = "returned"
    /\ registryOption # None
    /\ \E j \in 1..Len(results) : \E k \in 1..Len(results) :
          results[j].chainId # results[k].chainId

\* C19: for every scanned chain whose calls all succeeded, the returned array
\* holds exactly one row for each token minted to the wallet that the wallet
\* still owns.
C19_OneRowPerCandidate ==
    scanpc = "returned" =>
        \A i \in Tasks :
            pc[i] = "ok" =>
                \A t \in OwnedTokens(chainIds[i]) :
                    Cardinality({j \in 1..Len(results) :
                                    /\ results[j].chainId = chainIds[i]
                                    /\ results[j].agentId = t}) = 1

\* C20: the scan returns only when every task has settled, and no row is
\* appended to the collector (nor the collector changed) after it returned.
C20_AggregationAfterSettle ==
    /\ [](scanpc = "returned" => \A i \in Tasks : Settled(i))
    /\ [][scanpc = "returned" => results' = results]_vars

\* C20, reached: the scan returned rows that two tasks pushed, the task named
\* first in chainIds having pushed last.
C20_Witness ==
    /\ scanpc = "returned"
    /\ \E j \in 1..Len(results) : \E k \in 1..Len(results) :
          /\ results[j].task < results[k].task
          /\ results[j].seq > results[k].seq

\* C21: two calls of createAgentAccount with the same name return the same
\* smart-account address and the same ownerAddress, and the project holds one
\* owner account and one smart account of a name.
C21_CreateIsIdempotent ==
    /\ \A c \in Callers : \A k \in Callers :
          (/\ create[c].pc = "returned"
           /\ create[k].pc = "returned"
           /\ AccountName(create[c].name) = AccountName(create[k].name)) =>
              /\ AgentAccountOf(c).address = AgentAccountOf(k).address
              /\ AgentAccountOf(c).ownerAddress = AgentAccountOf(k).ownerAddress
    /\ \A a \in cdpAccounts : \A b \in cdpAccounts : a.name = b.name => a = b
    /\ \A a \in cdpSmartAccounts : \A b \in cdpSmartAccounts : a.name = b.name => a = b

\* C21, reached: two calls returned for the same name, one of them for the
\* test network.
C21_Witness ==
    \E c \in Callers : \E k \in Callers :
        /\ c # k
        /\ create[c].pc = "returned"
        /\ create[k].pc = "returned"
        /\ create[c].name = Some("bot")
        /\ create[k].name = Some("bot")
        /\ create[c].testnet # create[k].testnet

\* C22: every RegisterResult has gasCost 0, sponsored true, the address of the
\* account register was called on, and that account's network: "base-sepolia"
\* when the test network was asked for, "base" otherwise.
C22_RegisterResultShape ==
    registerResult # None =>
        /\ Get(registerResult).gasCost = 0
        /\ Get(registerResult).sponsored = TRUE
        /\ Get(registerResult).smartAccountAddress
              = Get(create[regAccount].smartAccount).address
        /\ Get(registerResult).network
              = (IF create[regAccount].testnet THEN "base-sepolia" ELSE "base")

\* C22, reached: register returned on an account of the test network.
C22_Witness ==
    /\ registerResult # None
    /\ regpc = "returned"
    /\ create[regAccount].testnet

\* The reader's side of the data URI: the base64 undone, and the JSON text
\* parsed into an object, a function of the keys the text has.
FromBase64(encoded) == encoded[2]
JsonParse(json) ==
    [key \in {json[i][1] : i \in DOMAIN json} |->
        json[CHOOSE i \in DOMAIN json : json[i][1] = key][2]]
PublishedDocument == JsonParse(FromBase64(Get(agentURI)[2]))

\* C28: the document register publishes in its data URI has a name, a
\* description, services that each have a name and an endpoint, a boolean
\* x402Support that is false when not given, active true, and registrations
\* that are empty when not given.
C28_PublishedDocumentConforms ==
    agentURI # None =>
        /\ {"type", "name", "description", "services", "x402Support", "active",
            "registrations"} \subseteq DOMAIN PublishedDocument
        /\ PublishedDocument["name"] = Get(regOpts).name
        /\ PublishedDocument["description"] = Get(regOpts).description
        /\ \A i \in DOMAIN PublishedDocument["services"] :
              {"name", "endpoint"} \subseteq DOMAIN PublishedDocument["services"][i]
        /\ PublishedDocument["x402Support"] \in BOOLEAN
        /\ Get(regOpts).x402Support = None => PublishedDocument["x402Support"] = FALSE
        /\ PublishedDocument["active"] = TRUE
        /\ Get(regOpts).existingRegistrations = None =>
              PublishedDocument["registrations"] = << >>

\* The services the caller of register passed (none: the empty list).
ServicesGiven ==
    IF Get(registerCall.options).services = None THEN << >>
    ELSE Get(Get(registerCall.options).services)

\* C23: with a server configured and includeServerEndpoint not false, a
\* register whose caller names no MCP service submits the caller's services
\* followed by an MCP service whose endpoint is options.mcpUrl when supplied
\* and the current server URL otherwise, whether start() came first or not.
C23_McpEndpointAutoIncluded ==
    (/\ registerCall.pc = "identityRegister"
     /\ config.server
     /\ Get(registerCall.options).includeServerEndpoint # Some(FALSE)
     /\ \A i \in DOMAIN ServicesGiven : ServicesGiven[i].name \notin {"MCP", "mcp"}
     /\ (Get(registerCall.options).mcpUrl # None \/ Get(submitted).serverUrl # None)) =>
        /\ Len(Get(submitted).services) = Len(ServicesGiven) + 1
        /\ SubSeq(Get(submitted).services, 1, Len(ServicesGiven)) = ServicesGiven
        /\ Get(submitted).services[Len(ServicesGiven) + 1].name = "MCP"
        /\ Get(submitted).services[Len(ServicesGiven) + 1].endpoint =
              (IF Get(registerCall.options).mcpUrl # None
               THEN Get(Get(registerCall.options).mcpUrl)
               ELSE Get(Get(submitted).serverUrl))

\* What the getter globalId answers.
StackGlobalId == GlobalIdOf(thisAgentId)

\* C24: agentId and globalId are undefined until a register has succeeded;
\* from then on agentId is the id the registry returned and globalId is
\* eip155:<chain id>:<registry>#<agentId>, for every id the registry can
\* return.
C24_IdsFollowRegister ==
    /\ returnedId = None => (agentId = None /\ StackGlobalId = None)
    /\ returnedId # None =>
          /\ agentId = returnedId
          /\ StackGlobalId = Some(FormatGlobalId(config.chainId,
                                                  IDENTITY_REGISTRY_ADDRESS,
                                                  Get(returnedId)))

\* Whether a list of services names MCP, in any case.
NamesMcp(services) ==
    \E i \in DOMAIN services : services[i].name \in {"MCP", "mcp"}

\* What was handed to identity.register.
ServicesSent == Get(submitted).services

\* C25: when the caller's services name MCP (in any case) register submits
\* them unchanged; otherwise it submits them as they are or followed by one
\* MCP service; and no step of register changes the options of its caller.
C25_AtMostOneMcpAppended ==
    /\ [](submitted # None =>
            IF NamesMcp(ServicesGiven)
            THEN ServicesSent = ServicesGiven
            ELSE \/ ServicesSent = ServicesGiven
                 \/ /\ Len(ServicesSent) = Len(ServicesGiven) + 1
                    /\ SubSeq(ServicesSent, 1, Len(ServicesGiven)) = ServicesGiven
                    /\ ServicesSent[Len(ServicesSent)].name = "MCP")
    /\ [][registerCall.pc \in {"isRegistered", "identityRegister"} =>
            registerCall'.options = registerCall.options]_vars

\* C25, reached: with the server started and its endpoint wanted, a caller
\* whose services name "mcp" in lower case had them submitted.
C25_Witness ==
    /\ registerCall.pc = "identityRegister"
    /\ Get(submitted).serverUrl # None
    /\ Get(registerCall.options).includeServerEndpoint # Some(FALSE)
    /\ \E i \in DOMAIN ServicesGiven : ServicesGiven[i].name = "mcp"
    /\ ServicesSent = ServicesGiven

\* C26: a register whose isRegistered reports a registered agent throws,
\* hands nothing to identity.register and leaves agentId, globalId and
\* serverUrl as they were; a call of register invokes identity.register at
\* most once, exactly once when it returns, and never after such a report.
C26_RegisteredAgentNotRegisteredAgain ==
    /\ [](/\ registerCall.invoked <= 1
          /\ registerCall.pc = "returned" => registerCall.invoked = 1
          /\ registerCall.reported = Some(TRUE) =>
                /\ registerCall.pc = "threw"
                /\ registerCall.invoked = 0
                /\ submitted = None)
    /\ [][(registerCall.pc = "isRegistered" /\ registerCall'.reported = Some(TRUE)) =>
            /\ registerCall'.pc = "threw"
            /\ agentId' = agentId
            /\ StackGlobalId' = StackGlobalId
            /\ serverUrl' = serverUrl
            /\ UNCHANGED << submitted, onChain >>]_vars

\* C26, reached: an agent this A3Stack registered and started called
\* register again, and the call threw on the report of isRegistered.
C26_Witness ==
    /\ registerCall.pc = "threw"
    /\ registerCall.reported = Some(TRUE)
    /\ agentId # None
    /\ serverUrl # None

\* C27: without a server configuration start, tool and resource throw and
\* stop does nothing, none of them changing any state; and serverUrl is
\* undefined until a start() has completed, and from then on the URL of the
\* last start() that completed, also after a stop() or a start() that threw.
C27_ServerMethodsNeedServer ==
    /\ [](/\ serverUrl = lastStart
          /\ ~config.server =>
                /\ serverUrl = None
                /\ tools = {}
                /\ resources = {}
                /\ ~listening
                /\ startCall = NoStartCall)
    /\ [][(~config.server /\ registerCall' = registerCall) =>
            /\ lastEvent' \in {"startThrew", "toolThrew", "resourceThrew", "stopped"}
            /\ UNCHANGED << config, thisAgentId, thisServerUrl, listening, tools,
                            resources, startCall, onChain, submitted, returnedId >>]_vars
    /\ [][lastEvent' # lastEvent => serverUrl' = serverUrl]_vars

\* C27, reached: an A3Stack without a server configuration registered its
\* agent, and its start() threw.
C27_Witness ==
    /\ ~config.server
    /\ lastEvent = "startThrew"
    /\ agentId # None

\* C29: a returned result has an error exactly when it is not verified, and
\* the error is then a non-empty string: the verdict's error, "Identity
\* verification failed" when the verdict has none, or "Verification failed: "
\* followed by the message of what verifyAgent threw.
C29_ErrorIffNotVerified ==
    ppc = "returned" =>
        /\ result.error # None <=> ~result.verified
        /\ result.error # None =>
              /\ Get(result.error) # ""
              /\ IF verification = None
                 THEN result.error = Some("Verification failed: network down")
                 ELSE IF Get(verification).error # None
                 THEN result.error = Get(verification).error
                 ELSE result.error = Some("Identity verification failed")

\* C29, reached: an invalid verdict without an error was returned.
C29_Witness ==
    /\ ppc = "returned"
    /\ verification # None
    /\ ~Get(verification).valid
    /\ Get(verification).error = None
    /\ result.error = Some("Identity verification failed")

\* C30: a valid verdict without a registration gives a verified result with
\* the verdict's owner and payment wallet, no endpoint, acceptsPayment and
\* active false, no services, no registrations, no error, no payment
\* requirements and no HTTP request; and in every returned result endpoints
\* has its three members and services and registrations are lists.
C30_ValidVerdictWithoutRegistration ==
    ppc = "returned" =>
        /\ DOMAIN result.endpoints = {"mcp", "a2a", "web"}
        /\ result.services \in ServiceLists
        /\ result.registrations \in {<< >>, << CrossRegistration >>}
        /\ (/\ verification # None
            /\ Get(verification).valid
            /\ Get(verification).registration = None) =>
              /\ result.verified
              /\ result.owner = Get(verification).owner
              /\ result.paymentWallet = Get(verification).paymentWallet
              /\ result.endpoints = [mcp |-> None, a2a |-> None, web |-> None]
              /\ ~result.acceptsPayment
              /\ ~result.active
              /\ result.services = << >>
              /\ result.registrations = << >>
              /\ result.error = None
              /\ result.paymentRequirements = None
              /\ requests = 0
              /\ response = None

\* C30, reached: a valid verdict that names a payment wallet and has no
\* registration was returned.
C30_Witness ==
    /\ ppc = "returned"
    /\ verification # None
    /\ Get(verification).valid
    /\ Get(verification).registration = None
    /\ Get(verification).paymentWallet = Some("0xB")

====
